---- MODULE Spec2Model ----
(***************************************************************************)
(* Model of flatpak-import.py: the OCI-layout Registry, import_image with  *)
(* its OSTree transaction, iter_commits and the main() driver.             *)
(*                                                                         *)
(* Strings that the code splits or concatenates (digests, label keys) are  *)
(* sequences of tokens, so that split(":", 1), startswith and "+" are      *)
(* computed and not assumed.  A revision id is the content of the commit   *)
(* it names (OSTree derives it from the serialized commit).                *)
(***************************************************************************)
EXTENDS Integers, Sequences, FiniteSets, TLC

\* ------------------------------------------------------------ bounds ----
MaxLines == 2      \* lines in one input list
MaxRuns == 2       \* runs of main() against the same repository
MaxMissing == 1    \* labels absent from the config of image DC
MaxCalls == 4      \* calls made on the Registry class

\* ----------------------------------------------------------- helpers ----
None == "None"

Range(f) == {f[x] : x \in DOMAIN f}

SeqsUpTo(S, n) == UNION {[1..k -> S] : k \in 0..n}

\* str.split(":", 1): one part when there is no colon, else two.
split(s) ==
    IF \E k \in 1..Len(s) : s[k] = ":"
    THEN LET k == CHOOSE k \in 1..Len(s) :
                      s[k] = ":" /\ \A j \in 1..(k - 1) : s[j] # ":"
         IN  <<SubSeq(s, 1, k - 1), SubSeq(s, k + 1, Len(s))>>
    ELSE <<s>>

\* filter(None, ...) over lines that are never falsy: nothing is dropped.
keep_all(lines) == lines

\* filter(len, images)
RECURSIVE filter_len(_)
filter_len(lines) ==
    IF lines = <<>> THEN <<>>
    ELSE IF Len(Head(lines)) # 0
         THEN <<Head(lines)>> \o filter_len(Tail(lines))
         ELSE filter_len(Tail(lines))

\* int() of the timestamp label
isint(s) == s \in {"1", "2", "3"}
int(s) == CASE s = "1" -> 1 [] s = "2" -> 2 [] s = "3" -> 3

\* base64.b64decode of a commit-metadata label value
b64decode(v) == CASE v = "YmFy" -> "bar" [] v = "YmF6" -> "baz" [] OTHER -> None

\* ---------------------------------------------------- registry content --
DA == <<"sha256", ":", "a">>
DB == <<"sha256", ":", "b">>
DC == <<"sha256", ":", "c">>
CA == <<"sha256", ":", "ca">>
CB == <<"sha256", ":", "cb">>
CC == <<"sha256", ":", "cc">>
L1 == <<"sha256", ":", "l1">>
L2 == <<"sha256", ":", "l2">>
Blank == <<>>

Lines == {Blank, DA, DB, DC}

LabelPrefix == "org.flatpak."
MetadataPrefix == "org.flatpak.commit-metadata."

KRef == <<LabelPrefix, "ref">>
KParent == <<LabelPrefix, "parent-commit">>
KTimestamp == <<LabelPrefix, "timestamp">>
KSubject == <<LabelPrefix, "subject">>
KBody == <<LabelPrefix, "body">>
KFoo == <<MetadataPrefix, "xa.foo">>

FlatpakLabels == {KRef, KParent, KTimestamp, KSubject, KBody}

\* str.startswith("org.flatpak.commit-metadata.")
startswith(k) == k[1] = MetadataPrefix

LabelsA ==
    (KRef :> "app/org.a") @@ (KTimestamp :> "1") @@ (KSubject :> "a1")
    @@ (KBody :> "first") @@ (KFoo :> "YmFy")

LabelsB ==
    (KRef :> "app/org.a") @@ (KParent :> "rev-a") @@ (KTimestamp :> "2")
    @@ (KSubject :> "a2") @@ (KBody :> "second")

LabelsC ==
    (KRef :> "app/org.c") @@ (KParent :> "rev-c") @@ (KTimestamp :> "3")
    @@ (KSubject :> "c1") @@ (KBody :> "third")

Restrict(f, S) == [x \in S |-> f[x]]

ManifestOf(cfg, layers) ==
    [config |-> [digest |-> cfg],
     layers |-> [k \in 1..Len(layers) |-> [digest |-> layers[k]]]]

ConfigOf(labels, diffs) ==
    [config |-> [Labels |-> labels], rootfs |-> [diff_ids |-> diffs]]

\* A layer archive is the file tree tar extracts from it.
Layer1 == ("f" :> "f1") @@ ("g" :> "g1")
Layer2 == ("f" :> "f2") @@ ("h" :> "h2")

\* Registry.__init__: the blob directory of each supported algorithm.
RegistryBlobs == {"sha256"}

\* Registry.path_for_blob: ValueError when the digest has no colon, None for
\* an algorithm without a blob directory, else <blobs>/<algorithm>/<want>.
path_for_blob(digest) ==
    LET parts == split(digest) IN
    IF Len(parts) # 2 THEN [err |-> "ValueError"]
    ELSE IF parts[1] \notin {<<a>> : a \in RegistryBlobs} THEN [err |-> "", path |-> None]
    ELSE [err |-> "", path |-> <<"blobs", parts[1][1]>> \o parts[2]]

BlobPath(digest) == path_for_blob(digest).path

\* The files under <root>/blobs; DC's config lacks the labels in missing.
Blobs(missing) ==
    (BlobPath(DA) :> ManifestOf(CA, <<L1, L2>>))
    @@ (BlobPath(DB) :> ManifestOf(CB, <<L2, L1>>))
    @@ (BlobPath(DC) :> ManifestOf(CC, <<L1>>))
    @@ (BlobPath(CA) :> ConfigOf(LabelsA, <<L1, L2>>))
    @@ (BlobPath(CB) :> ConfigOf(LabelsB, <<L2, L1>>))
    @@ (BlobPath(CC) :> ConfigOf(Restrict(LabelsC, DOMAIN LabelsC \ missing), <<L1>>))
    @@ (BlobPath(L1) :> Layer1) @@ (BlobPath(L2) :> Layer2)

\* Registry.blobs_get_json: open() of the blob's path and json.load.
blobs_get_json(reg, digest) ==
    LET p == path_for_blob(digest) IN
    IF p.err # "" THEN [err |-> p.err]
    ELSE IF p.path = None THEN [err |-> "TypeError"]
    ELSE IF p.path \notin DOMAIN reg THEN [err |-> "FileNotFoundError"]
    ELSE [err |-> "", value |-> reg[p.path]]

\* A commit written by some other tool: no xa.alt-id in its metadata.
ForeignCommit ==
    [parent |-> None, subject |-> "x", body |-> "x",
     metadata |-> <<<<"xa.other", <<"o">>>>>>, root |-> ("z" :> "z0"), timestamp |-> 0]

EmptyRefs == [r \in {} |-> None]

\* The commit-metadata labels of a config, in the order labels.items() yields.
RECURSIVE items(_)
items(labels) ==
    IF DOMAIN labels = {} THEN <<>>
    ELSE LET k == CHOOSE k \in DOMAIN labels : TRUE
         IN  <<<<k, labels[k]>>>> \o items(Restrict(labels, DOMAIN labels \ {k}))

\* An entry for every label, the prefix test left out.
RECURSIVE builder_all(_)
builder_all(its) ==
    IF its = <<>> THEN <<>>
    ELSE <<<<Head(its)[1][2], b64decode(Head(its)[2])>>>> \o builder_all(Tail(its))

\* import_image, lines 151-162: one a{sv} entry per commit-metadata label.
RECURSIVE builder_labels(_)
builder_labels(its) ==
    IF its = <<>> THEN <<>>
    ELSE LET k == Head(its)[1]
             v == Head(its)[2]
         IN  IF ~startswith(k) THEN builder_labels(Tail(its))
             ELSE <<<<k[2], b64decode(v)>>>> \o builder_labels(Tail(its))

\* GLib.VariantDict.lookup_value: the last entry of the a{sv} with that key.
contains(metadata, key) == \E k \in 1..Len(metadata) : metadata[k][1] = key

lookup_value(metadata, key) ==
    LET k == CHOOSE k \in 1..Len(metadata) :
                 /\ metadata[k][1] = key
                 /\ \A j \in (k + 1)..Len(metadata) : metadata[j][1] # key
    IN  metadata[k][2]

EmptyTree == [p \in {} |-> None]

NoRev == [parent |-> None]

\* The parent commit looked up with labels[...] like the other labels.
missing_label_strict(labels) ==
    IF KRef \notin DOMAIN labels THEN KRef
    ELSE IF KParent \notin DOMAIN labels THEN KParent
    ELSE IF KTimestamp \notin DOMAIN labels THEN KTimestamp
    ELSE IF KSubject \notin DOMAIN labels THEN KSubject
    ELSE IF KBody \notin DOMAIN labels THEN KBody
    ELSE <<>>

\* import_image, lines 145-149: the first label whose lookup raises KeyError
\* (labels[...] for ref, timestamp, subject and body; labels.get for the
\* parent commit), <<>> when none does.
missing_label(labels) ==
    IF KRef \notin DOMAIN labels THEN KRef
    ELSE IF KTimestamp \notin DOMAIN labels THEN KTimestamp
    ELSE IF KSubject \notin DOMAIN labels THEN KSubject
    ELSE IF KBody \notin DOMAIN labels THEN KBody
    ELSE <<>>

\* import_image, lines 138-171: everything before prepare_transaction.  The
\* result is the exception raised (err) or the locals of the call.
import_image_head(reg, digest) ==
    LET m == blobs_get_json(reg, digest) IN
    IF m.err # "" THEN [err |-> m.err, key |-> <<>>]
    ELSE
    LET manifest == m.value
        c == blobs_get_json(reg, manifest.config.digest) IN
    IF c.err # "" THEN [err |-> c.err, key |-> <<>>]
    ELSE
    LET config == c.value
        labels == config.config.Labels IN
    IF missing_label(labels) \in {KRef, KParent, KTimestamp}
    THEN [err |-> "KeyError", key |-> missing_label(labels)]
    ELSE IF ~isint(labels[KTimestamp]) THEN [err |-> "ValueError", key |-> <<>>]
    ELSE IF missing_label(labels) # <<>>
         THEN [err |-> "KeyError", key |-> missing_label(labels)]
    ELSE IF \E k \in DOMAIN labels : startswith(k) /\ b64decode(labels[k]) = None
         THEN [err |-> "binascii.Error", key |-> <<>>]
    ELSE IF Len(split(digest)) # 2 THEN [err |-> "ValueError", key |-> <<>>]
    ELSE IF config.rootfs.diff_ids = <<>> THEN [err |-> "IndexError", key |-> <<>>]
    ELSE
    LET last_diff_id == config.rootfs.diff_ids[Len(config.rootfs.diff_ids)] IN
    IF Len(split(last_diff_id)) # 2 THEN [err |-> "ValueError", key |-> <<>>]
    ELSE
    [err |-> "", key |-> <<>>,
     digest |-> digest,
     manifest |-> manifest,
     ref |-> labels[KRef],
     parent |-> IF KParent \in DOMAIN labels THEN labels[KParent] ELSE None,
     timestamp |-> int(labels[KTimestamp]),
     subject |-> labels[KSubject],
     body |-> labels[KBody],
     metadata |-> builder_labels(items(labels))
                  \o <<<<"xa.alt-id", split(digest)[2]>>>>
                  \o <<<<"xa.diff-id", split(last_diff_id)[2]>>>>,
     mtree |-> EmptyTree, layer |-> 0, root |-> EmptyTree, rev |-> NoRev]

\* A merge in which the entries already in the tree win.
write_directory_keep(tree, mtree) ==
    [p \in DOMAIN mtree \cup DOMAIN tree |->
        IF p \in DOMAIN mtree THEN mtree[p] ELSE tree[p]]

\* repo.write_directory_to_mtree: entries of the directory replace the
\* entries of the tree at the same path.
write_directory_to_mtree(tree, mtree) ==
    [p \in DOMAIN mtree \cup DOMAIN tree |->
        IF p \in DOMAIN tree THEN tree[p] ELSE mtree[p]]

\* The alt-id yielded as it is, without "sha256:" in front.
iter_commits_bare(rp) ==
    LET alt(r) == lookup_value(rp.refs[r].metadata, "xa.alt-id")
        yields == {r \in DOMAIN rp.refs :
                      /\ contains(rp.refs[r].metadata, "xa.alt-id")
                      /\ alt(r) # <<>>}
    IN  [k \in {alt(r) : r \in yields} |->
            rp.refs[CHOOSE r \in yields : alt(r) = k]]

\* iter_commits + dict(): for every ref whose tip has a non-empty xa.alt-id,
\* "sha256:" + alt-id mapped to the tip's revision.
iter_commits(rp) ==
    LET alt(r) == lookup_value(rp.refs[r].metadata, "xa.alt-id")
        yields == {r \in DOMAIN rp.refs :
                      /\ contains(rp.refs[r].metadata, "xa.alt-id")
                      /\ alt(r) # <<>>}
        key(r) == <<"sha256", ":">> \o alt(r)
    IN  [k \in {key(r) : r \in yields} |->
            rp.refs[CHOOSE r \in yields : key(r) = k]]

NoFrame == [err |-> None]

NoError == [err |-> "", key |-> <<>>]

\* ------------------------------------------------ the Registry on disk --
\* A disk is the directories and the files (path -> content) there are.
\* Paths are relative to the root of the registry: <<>> is the root itself,
\* <<"..", name>> a file outside it.
Root == <<>>

OciLayout == <<"oci-layout">>

LayoutMarker == [imageLayoutVersion |-> "1.0.0"]

MEDIA_TYPES ==
    ("layer" :> "application/vnd.oci.image.layer.v1.tar")
    @@ ("manifest" :> "application/vnd.oci.image.manifest.v1+json")
    @@ ("config" :> "application/vnd.oci.image.config.v1+json")

\* sha256sum: the hex digest of the bytes of a file.
sha256sum(bytes) == CASE bytes = "x" -> "hx" [] bytes = "yy" -> "hy" [] OTHER -> "h0"

\* os.stat(path).st_size
st_size(bytes) == CASE bytes = "x" -> 1 [] bytes = "yy" -> 2 [] OTHER -> 0

NoRegistry == [root |-> None]

\* Registry.init: open(<root>/oci-layout, "w") and json.dump.  open() does
\* not create the directory the file is in.
Registry_init(d) ==
    IF Root \notin d.dirs
    THEN [err |-> "FileNotFoundError", disk |-> d]
    ELSE [err |-> "", disk |-> [d EXCEPT !.files = (OciLayout :> LayoutMarker) @@ @]]

\* Registry.__init__: init() when the root does not exist, then mkdir -p of
\* the blob directory of every algorithm.
Registry_new(d) ==
    LET r == IF Root \notin d.dirs THEN Registry_init(d) ELSE [err |-> "", disk |-> d]
    IN  IF r.err # "" THEN [err |-> r.err, disk |-> r.disk, self |-> NoRegistry]
        ELSE [err |-> "",
              disk |-> [r.disk EXCEPT !.dirs =
                          @ \cup {Root, <<"blobs">>} \cup {<<"blobs", a>> : a \in RegistryBlobs}],
              self |-> [root |-> Root, blobs |-> [a \in RegistryBlobs |-> <<"blobs", a>>]]]

\* A blobs_add_file that copies the file into the store and leaves it where
\* it was.
blobs_add_file_copy(d, self, path, mtype) ==
    IF path \notin DOMAIN d.files
    THEN [err |-> "CalledProcessError", disk |-> d]
    ELSE LET digest == sha256sum(d.files[path])
             size == st_size(d.files[path])
             moved == [d EXCEPT !.files =
                          (Append(self.blobs["sha256"], digest) :> d.files[path]) @@ @]
         IN  IF mtype \notin DOMAIN MEDIA_TYPES
             THEN [err |-> "KeyError", disk |-> moved]
             ELSE [err |-> "", disk |-> moved,
                   info |-> [digest |-> <<"sha256", ":", digest>>, size |-> size,
                             mediaType |-> MEDIA_TYPES[mtype]]]

\* Registry.blobs_add_file: sha256sum (check=True), stat, os.rename into the
\* blob directory (replacing a file already there), then the descriptor.
blobs_add_file(d, self, path, mtype) ==
    IF path \notin DOMAIN d.files
    THEN [err |-> "CalledProcessError", disk |-> d]
    ELSE LET digest == sha256sum(d.files[path])
             size == st_size(d.files[path])
             dest == Append(self.blobs["sha256"], digest)
             moved == [d EXCEPT !.files =
                          [p \in (DOMAIN d.files \ {path}) \cup {dest} |->
                              IF p = dest THEN d.files[path] ELSE d.files[p]]]
         IN  IF mtype \notin DOMAIN MEDIA_TYPES
             THEN [err |-> "KeyError", disk |-> moved]
             ELSE [err |-> "", disk |-> moved,
                   info |-> [digest |-> <<"sha256", ":", digest>>, size |-> size,
                             mediaType |-> MEDIA_TYPES[mtype]]]

TempNames == <<".temp-a", ".temp-b", ".temp-c", ".temp-d", ".temp-e", ".temp-f">>

\* tempfile.mkstemp(dir=self.root, prefix=".temp-"): a new empty file in the
\* root; the result is the pair (fd, path).
mkstemp(d) ==
    LET k == CHOOSE k \in 1..Len(TempNames) :
                 /\ <<TempNames[k]>> \notin DOMAIN d.files
                 /\ \A j \in 1..(k - 1) : <<TempNames[j]>> \in DOMAIN d.files
    IN  [err |-> "", disk |-> [d EXCEPT !.files = (<<TempNames[k]>> :> "") @@ @],
         js_file |-> <<"fd", <<TempNames[k]>>>>]

\* Registry.blobs_add_json: js_file is the (fd, path) pair mkstemp returned,
\* and open() of a tuple raises TypeError; json.dump and blobs_add_file are
\* never reached.
blobs_add_json(d, self, js, mtype) ==
    IF self.root \notin d.dirs
    THEN [err |-> "FileNotFoundError", disk |-> d]
    ELSE [err |-> "TypeError", disk |-> mkstemp(d).disk]

\* Registry.__contains__: path_for_blob(digest).exists(); None has no exists.
Registry_contains(d, digest) ==
    LET p == path_for_blob(digest) IN
    IF p.err # "" THEN [err |-> p.err]
    ELSE IF p.path = None THEN [err |-> "AttributeError"]
    ELSE [err |-> "", value |-> p.path \in DOMAIN d.files]

\* ------------------------------------------------- the OSTree repository --
\* refs and objects are what a reader of the repository sees; staged_* is
\* the content of the open transaction.
NewRepo(refs) ==
    [refs |-> refs, objects |-> Range(refs), txn |-> FALSE,
     staged_refs |-> EmptyRefs, staged_objects |-> {}]

prepare_transaction(rp) == [rp EXCEPT !.txn = TRUE]

write_commit_with_time(rp, commit) ==
    [rp EXCEPT !.staged_objects = @ \cup {commit}]

\* The ref written straight into the repository instead of the transaction.
set_ref_immediate(rp, ref, rev) ==
    [rp EXCEPT !.refs = (ref :> rev) @@ @]

transaction_set_ref(rp, ref, rev) ==
    [rp EXCEPT !.staged_refs = (ref :> rev) @@ @]

\* A commit that replaces the refs of the repository by the staged ones.
commit_replaces_refs(rp) ==
    [rp EXCEPT !.refs = rp.staged_refs,
               !.objects = @ \cup rp.staged_objects,
               !.txn = FALSE,
               !.staged_refs = EmptyRefs,
               !.staged_objects = {}]

commit_transaction(rp) ==
    [rp EXCEPT !.refs = rp.staged_refs @@ @,
               !.objects = @ \cup rp.staged_objects,
               !.txn = FALSE,
               !.staged_refs = EmptyRefs,
               !.staged_objects = {}]

\* An abort that closes the transaction but lets its refs through.
abort_keeps_refs(rp) ==
    [rp EXCEPT !.refs = rp.staged_refs @@ @,
               !.txn = FALSE,
               !.staged_refs = EmptyRefs,
               !.staged_objects = {}]

\* An abort that does nothing.
abort_noop(rp) == rp

abort_transaction(rp) ==
    [rp EXCEPT !.txn = FALSE, !.staged_refs = EmptyRefs, !.staged_objects = {}]

\* ------------------------------------------------------------- state ----
VARIABLES
    registry,   \* the files under the registry's blobs directory
    repo,       \* the OSTree repository
    images,     \* main: pkgs.split("\n")
    i,          \* main: how many items the for loop has taken
    existing,   \* main: dict(iter_commits(repo))
    pc,         \* the statement the process is at
    frame,      \* the locals of the import_image call in progress
    run,        \* which run of main() this is
    returncode, \* exit status of the process, -1 while it runs
    err,        \* the exception that ended the process
    summary,    \* return codes of the ostree summary calls of this run
    log,        \* what this run did, in order
    imports,    \* per digest, the imports whose transaction committed
    prior,      \* the digests imported by earlier runs
    disk,       \* Registry: the directories and files on disk
    self,       \* Registry: the object __init__ made, NoRegistry before
    calls       \* Registry: the calls made so far, with what each gave

vars == <<registry, repo, images, i, existing, pc, frame,
          run, returncode, err, summary, log, imports, prior,
          disk, self, calls>>

\* The Registry class is not under test while main() runs.
NoDisk == [dirs |-> {}, files |-> [p \in {} |-> None]]

Digests == Lines \ {Blank}

img == filter_len(images)[i]

\* The statements of import_image inside the try block.
TxnSteps == {"layers", "write_commit", "transaction_set_ref", "commit_transaction"}

\* main, lines 224-240: read the list, open the repository, build the index.
StartMain(list) ==
    /\ images' = list
    /\ existing' = iter_commits(repo)
    /\ i' = 0
    /\ pc' = "for"
    /\ frame' = NoFrame
    /\ returncode' = -1
    /\ err' = NoError
    /\ summary' = <<>>
    /\ log' = <<>>

Init ==
    /\ \E missing \in {S \in SUBSET FlatpakLabels : Cardinality(S) <= MaxMissing} :
           registry = Blobs(missing)
    /\ \E refs \in {EmptyRefs, ("app/org.x" :> ForeignCommit)} :
           /\ repo = NewRepo(refs)
           /\ existing = iter_commits(NewRepo(refs))
    /\ images \in SeqsUpTo(Lines, MaxLines)
    /\ i = 0
    /\ pc = "for"
    /\ frame = NoFrame
    /\ run = 1
    /\ returncode = -1
    /\ err = NoError
    /\ summary = <<>>
    /\ log = <<>>
    /\ imports = [d \in Digests |-> 0]
    /\ prior = {}
    /\ disk = NoDisk
    /\ self = NoRegistry
    /\ calls = <<>>

\* main, lines 242-247: the next image is in the index.
Found ==
    /\ pc = "for"
    /\ i < Len(filter_len(images))
    /\ filter_len(images)[i + 1] \in DOMAIN existing
    /\ i' = i + 1
    /\ log' = Append(log, <<"found", filter_len(images)[i + 1]>>)
    /\ UNCHANGED <<disk, self, calls, registry, repo, images, existing, pc, frame, run,
                   returncode, err, summary, imports, prior>>

\* main, lines 242-250: the next image is not in the index.
Importing ==
    /\ pc = "for"
    /\ i < Len(filter_len(images))
    /\ filter_len(images)[i + 1] \notin DOMAIN existing
    /\ i' = i + 1
    /\ pc' = "import_image"
    /\ log' = Append(log, <<"importing", filter_len(images)[i + 1]>>)
    /\ UNCHANGED <<disk, self, calls, registry, repo, images, existing, frame, run,
                   returncode, err, summary, imports, prior>>

\* An exception nothing catches: the interpreter prints it and exits 1.
Uncaught(e) ==
    /\ pc' = "exit"
    /\ returncode' = 1
    /\ err' = e
    /\ frame' = NoFrame

\* import_image, lines 138-171, raising.
ImportImageRaise ==
    /\ pc = "import_image"
    /\ import_image_head(registry, img).err # ""
    /\ Uncaught(import_image_head(registry, img))
    /\ log' = Append(log, <<"raised", img>>)
    /\ UNCHANGED <<disk, self, calls, registry, repo, images, i, existing, run, summary,
                   imports, prior>>

\* import_image, lines 138-171, returning the locals.
ImportImageHead ==
    /\ pc = "import_image"
    /\ import_image_head(registry, img).err = ""
    /\ frame' = import_image_head(registry, img)
    /\ pc' = "prepare_transaction"
    /\ UNCHANGED <<disk, self, calls, registry, repo, images, i, existing, run, returncode,
                   err, summary, log, imports, prior>>

\* import_image, lines 173-175.
PrepareTransaction ==
    /\ pc = "prepare_transaction"
    /\ repo' = prepare_transaction(repo)
    /\ frame' = [frame EXCEPT !.mtree = EmptyTree]
    /\ pc' = "layers"
    /\ UNCHANGED <<disk, self, calls, registry, images, i, existing, run, returncode, err,
                   summary, log, imports, prior>>

\* import_image, line 173 raising: outside the try, so nothing is aborted.
PrepareTransactionRaise ==
    /\ pc = "prepare_transaction"
    /\ Uncaught([err |-> "GLib.Error", key |-> <<>>])
    /\ log' = Append(log, <<"raised", img>>)
    /\ UNCHANGED <<disk, self, calls, registry, repo, images, i, existing, run, summary,
                   imports, prior>>

\* import_image, lines 177-180 with import_layer: one layer of the manifest.
ImportLayer ==
    /\ pc = "layers"
    /\ frame.layer < Len(frame.manifest.layers)
    /\ LET digest == frame.manifest.layers[frame.layer + 1].digest
           path == path_for_blob(digest)
       IN  /\ path.err = ""
           /\ path.path \in DOMAIN registry
           /\ frame' = [frame EXCEPT
                  !.digest = digest,
                  !.layer = @ + 1,
                  !.mtree = write_directory_to_mtree(registry[path.path], @)]
    /\ UNCHANGED <<disk, self, calls, registry, repo, images, i, existing, pc, run, returncode,
                   err, summary, log, imports, prior>>

\* import_image, line 182: the loop over the layers is over.
WriteMtree ==
    /\ pc = "layers"
    /\ frame.layer = Len(frame.manifest.layers)
    /\ frame' = [frame EXCEPT !.root = frame.mtree]
    /\ pc' = "write_commit"
    /\ UNCHANGED <<disk, self, calls, registry, repo, images, i, existing, run, returncode,
                   err, summary, log, imports, prior>>

\* import_image, lines 184-191.
WriteCommit ==
    /\ pc = "write_commit"
    /\ LET rev == [parent |-> frame.parent, subject |-> frame.subject,
                   body |-> frame.body, metadata |-> frame.metadata,
                   root |-> frame.root, timestamp |-> frame.timestamp]
       IN  /\ repo' = write_commit_with_time(repo, rev)
           /\ frame' = [frame EXCEPT !.rev = rev]
    /\ pc' = "transaction_set_ref"
    /\ log' = Append(log, <<"committing", img>>)
    /\ UNCHANGED <<disk, self, calls, registry, images, i, existing, run, returncode, err,
                   summary, imports, prior>>

\* import_image, line 193.
TransactionSetRef ==
    /\ pc = "transaction_set_ref"
    /\ repo' = transaction_set_ref(repo, frame.ref, frame.rev)
    /\ pc' = "commit_transaction"
    /\ UNCHANGED <<disk, self, calls, registry, images, i, existing, frame, run, returncode,
                   err, summary, log, imports, prior>>

\* import_image, line 196, and the return to the loop of main.
CommitTransaction ==
    /\ pc = "commit_transaction"
    /\ repo' = commit_transaction(repo)
    /\ pc' = "for"
    /\ frame' = NoFrame
    /\ imports' = [imports EXCEPT ![img] = @ + 1]
    /\ log' = Append(log, <<"committed", img>>)
    /\ UNCHANGED <<disk, self, calls, registry, images, i, existing, run, returncode, err,
                   summary, prior>>

\* The handler of import_image swallowing the exception: the loop of main
\* goes on with the next image.
ExceptContinue ==
    /\ pc \in TxnSteps
    /\ repo' = abort_transaction(repo)
    /\ pc' = "for"
    /\ frame' = NoFrame
    /\ log' = Append(log, <<"raised", img>>)
    /\ UNCHANGED <<disk, self, calls, registry, images, i, existing, run, returncode, err,
                   summary, imports, prior>>

\* The summary run on the way out of a failed import as well, as a finally
\* clause would.
ExceptFinally ==
    /\ pc \in TxnSteps
    /\ repo' = abort_transaction(repo)
    /\ Uncaught([err |-> "GLib.Error", key |-> <<>>])
    /\ log' = Append(log, <<"raised", img>>)
    /\ \E rc \in {0, 1} : summary' = Append(summary, rc)
    /\ UNCHANGED <<disk, self, calls, registry, images, i, existing, run, imports, prior>>

\* import_image, lines 197-199: a step inside the try raises (tar or an
\* OSTree call fails); the transaction is aborted and the exception goes on.
Except ==
    /\ pc \in TxnSteps
    /\ repo' = abort_transaction(repo)
    /\ Uncaught([err |-> "GLib.Error", key |-> <<>>])
    /\ log' = Append(log, <<"raised", img>>)
    /\ UNCHANGED <<disk, self, calls, registry, images, i, existing, run, summary, imports, prior>>

\* main, line 252, and the end of the process.  The command ran; its return
\* code is not looked at (no check=True).
Summary ==
    /\ pc = "for"
    /\ i = Len(filter_len(images))
    /\ \E rc \in {0, 1} : summary' = Append(summary, rc)
    /\ pc' = "exit"
    /\ returncode' = 0
    /\ UNCHANGED <<disk, self, calls, registry, repo, images, i, existing, frame, run, err,
                   log, imports, prior>>

\* main, line 252, when the ostree command cannot be started: subprocess.run
\* raises and there is no return code (recorded as -1).
SummaryRaise ==
    /\ pc = "for"
    /\ i = Len(filter_len(images))
    /\ summary' = Append(summary, -1)
    /\ Uncaught([err |-> "FileNotFoundError", key |-> <<>>])
    /\ UNCHANGED <<disk, self, calls, registry, repo, images, i, existing, run, log, imports, prior>>

\* The next run of main() against the same registry and repository.
NextRun ==
    /\ pc = "exit"
    /\ run < MaxRuns
    /\ run' = run + 1
    /\ prior' = {d \in Digests : imports[d] > 0}
    /\ \E list \in SeqsUpTo(Lines, MaxLines) : StartMain(list)
    /\ UNCHANGED <<disk, self, calls, registry, repo, imports>>

Next ==
    \/ Found
    \/ Importing
    \/ ImportImageRaise
    \/ ImportImageHead
    \/ PrepareTransaction
    \/ PrepareTransactionRaise
    \/ ImportLayer
    \/ WriteMtree
    \/ WriteCommit
    \/ TransactionSetRef
    \/ CommitTransaction
    \/ Except
    \/ Summary
    \/ SummaryRaise
    \/ NextRun

Spec == Init /\ [][Next]_vars

\* -------------------------------------------- the Registry class alone --
\* A client that constructs a Registry on a directory and calls its methods.
Sources == (<<"..", "s1">> :> "x") @@ (<<"..", "s2">> :> "x") @@ (<<"..", "s3">> :> "yy")

\* No directory at the root path.
DiskAbsent == [dirs |-> {}, files |-> Sources]

\* An empty directory at the root path.
DiskEmpty == [dirs |-> {Root}, files |-> Sources]

\* A registry set up earlier, holding the blob of the bytes "yy".
DiskLayout ==
    [dirs |-> {Root, <<"blobs">>, <<"blobs", "sha256">>},
     files |-> (OciLayout :> LayoutMarker) @@ (<<"blobs", "sha256", "hy">> :> "yy")
               @@ Sources]

LookupDigests ==
    {<<"sha256", ":", "hx">>, <<"sha256", ":", "hy">>, <<"md5", ":", "hx">>}

mainvars == <<registry, repo, images, i, existing, pc, frame,
              run, returncode, err, summary, log, imports, prior>>

InitRegistry ==
    /\ disk \in {DiskAbsent, DiskEmpty, DiskLayout}
    /\ self = NoRegistry
    /\ calls = <<>>
    /\ registry = Blobs({})
    /\ repo = NewRepo(EmptyRefs)
    /\ images = <<>>
    /\ i = 0
    /\ existing = iter_commits(NewRepo(EmptyRefs))
    /\ pc = "registry"
    /\ frame = NoFrame
    /\ run = 1
    /\ returncode = -1
    /\ err = NoError
    /\ summary = <<>>
    /\ log = <<>>
    /\ imports = [d \in Digests |-> 0]
    /\ prior = {}

\* Registry(root)
CallNew ==
    /\ Len(calls) < MaxCalls
    /\ LET r == Registry_new(disk)
       IN  /\ disk' = r.disk
           /\ self' = IF r.err = "" THEN r.self ELSE self
           /\ calls' = Append(calls, [op |-> "Registry", err |-> r.err,
                                      existed |-> Root \in disk.dirs, before |-> disk])
    /\ UNCHANGED mainvars

\* registry.blobs_add_file(path, mtype)
CallAddFile ==
    /\ Len(calls) < MaxCalls
    /\ self # NoRegistry
    /\ \E path \in DOMAIN Sources, mtype \in {"layer", "config", "other"} :
          LET r == blobs_add_file(disk, self, path, mtype)
          IN  /\ disk' = r.disk
              /\ calls' = Append(calls,
                    [op |-> "blobs_add_file", err |-> r.err, path |-> path,
                     bytes |-> Sources[path],
                     digest |-> IF r.err = "" THEN r.info.digest ELSE <<>>,
                     mediaType |-> IF r.err = "" THEN r.info.mediaType ELSE ""])
    /\ UNCHANGED <<self, mainvars>>

\* registry.blobs_add_json(js, mtype)
CallAddJson ==
    /\ Len(calls) < MaxCalls
    /\ self # NoRegistry
    /\ \E js \in {"x", "yy"}, mtype \in {"manifest"} :
          LET r == blobs_add_json(disk, self, js, mtype)
          IN  /\ disk' = r.disk
              /\ calls' = Append(calls,
                    [op |-> "blobs_add_json", err |-> r.err, js |-> js])
    /\ UNCHANGED <<self, mainvars>>

\* registry.blobs_get_json(digest)
CallGetJson ==
    /\ Len(calls) < MaxCalls
    /\ self # NoRegistry
    /\ \E digest \in LookupDigests :
          LET r == blobs_get_json(disk.files, digest)
          IN  calls' = Append(calls,
                 [op |-> "blobs_get_json", err |-> r.err, digest |-> digest,
                  present |-> <<"blobs">> \o <<digest[1]>> \o SubSeq(digest, 3, Len(digest))
                                \in DOMAIN disk.files])
    /\ UNCHANGED <<disk, self, mainvars>>

\* digest in registry
CallContains ==
    /\ Len(calls) < MaxCalls
    /\ self # NoRegistry
    /\ \E digest \in LookupDigests :
          LET r == Registry_contains(disk, digest)
          IN  calls' = Append(calls,
                 [op |-> "__contains__", err |-> r.err, digest |-> digest])
    /\ UNCHANGED <<disk, self, mainvars>>

\* registry.path_for_blob(digest)
CallPathForBlob ==
    /\ Len(calls) < MaxCalls
    /\ self # NoRegistry
    /\ \E digest \in LookupDigests :
          LET r == path_for_blob(digest)
          IN  calls' = Append(calls,
                 [op |-> "path_for_blob", err |-> r.err, digest |-> digest,
                  isnone |-> r.err = "" /\ r.path = None])
    /\ UNCHANGED <<disk, self, mainvars>>

NextRegistry ==
    \/ CallNew
    \/ CallAddFile
    \/ CallAddJson
    \/ CallGetJson
    \/ CallContains
    \/ CallPathForBlob

SpecRegistry == InitRegistry /\ [][NextRegistry]_vars

\* ------------------------------------------------------------ claims ----
Ops(ops) == SelectSeq(log, LAMBDA e : e[1] \in ops)

\* The tree that applying the layers in order to an empty tree gives.
RECURSIVE MergedTree(_)
MergedTree(layers) ==
    IF layers = <<>> THEN EmptyTree
    ELSE LET below == MergedTree(SubSeq(layers, 1, Len(layers) - 1))
             top == registry[BlobPath(layers[Len(layers)].digest)]
         IN  [p \in DOMAIN below \cup DOMAIN top |->
                 IF p \in DOMAIN top THEN top[p] ELSE below[p]]

LabelsOf(d) ==
    registry[BlobPath(registry[BlobPath(d)].config.digest)].config.Labels

RequiredLabels == {KRef, KTimestamp, KSubject, KBody}

Importable(d) == RequiredLabels \subseteq DOMAIN LabelsOf(d)

\* The complete commit of image d: all labels, all layers.
CommitOf(d) ==
    [parent |-> IF KParent \in DOMAIN LabelsOf(d) THEN LabelsOf(d)[KParent] ELSE None,
     subject |-> LabelsOf(d)[KSubject],
     body |-> LabelsOf(d)[KBody],
     metadata |-> import_image_head(registry, d).metadata,
     root |-> MergedTree(registry[BlobPath(d)].layers),
     timestamp |-> int(LabelsOf(d)[KTimestamp])]

RefOf(d) == LabelsOf(d)[KRef]

\* C1: a run whose input list contains a digest that an earlier run imported
\* takes the skip branch for it: it is reported as found and nothing is
\* imported or written for it.
C1_DedupRoundTrip ==
    \A k \in 1..Len(log) : log[k][2] \in prior => log[k][1] = "found"

\* C2: over all runs and input lists, at most one import is committed for
\* any image digest.
C2_AtMostOnce == \A d \in Digests : imports[d] <= 1

\* C3: a step of import_image that fails inside the transaction aborts it
\* before the exception leaves, and the refs and commits a reader sees are
\* those from before the import; nothing the open transaction holds is
\* visible while it is open either.
C3_AtomicCommit ==
    [][repo.txn
        => /\ repo'.txn => (repo'.refs = repo.refs /\ repo'.objects = repo.objects)
           /\ pc' = "exit"
                => /\ repo' = [repo EXCEPT !.txn = FALSE,
                                           !.staged_refs = EmptyRefs,
                                           !.staged_objects = {}]
                   /\ returncode' = 1
                   /\ err'.err # ""]_vars

C3_Witness ==
    /\ pc = "exit"
    /\ returncode = 1
    /\ Len(log) >= 2
    /\ log[Len(log)] = <<"raised", DB>>
    /\ log[Len(log) - 1] = <<"committing", DB>>
    /\ "app/org.a" \in DOMAIN repo.refs
    /\ repo.refs["app/org.a"] = CommitOf(DA)

\* C4: every ref a reader sees points at a commit of the repository that is
\* either a commit of another tool or the complete commit (all labels, the
\* tree merged from all layers of the manifest) of an image whose import
\* committed its transaction.
C4_RefsComplete ==
    \A r \in DOMAIN repo.refs :
        /\ repo.refs[r] \in repo.objects
        /\ \/ repo.refs[r] = ForeignCommit
           \/ \E d \in Digests :
                 /\ imports[d] > 0
                 /\ r = RefOf(d)
                 /\ repo.refs[r] = CommitOf(d)

C4_Witness ==
    /\ repo.txn
    /\ "app/org.a" \in DOMAIN repo.staged_refs
    /\ repo.staged_refs["app/org.a"] = CommitOf(DB)
    /\ "app/org.a" \in DOMAIN repo.refs
    /\ repo.refs["app/org.a"] = CommitOf(DA)

\* C5: every commit the pipeline wrote carries a non-empty alt-id that is the
\* hash of its image digest, and the index built at the start of a run has
\* exactly the digests that earlier runs imported.
C5_SelfDescribing ==
    /\ \A c \in repo.objects \cup repo.staged_objects :
          c # ForeignCommit
            => /\ contains(c.metadata, "xa.alt-id")
               /\ lookup_value(c.metadata, "xa.alt-id") # <<>>
               /\ \E d \in Digests :
                     /\ lookup_value(c.metadata, "xa.alt-id") = split(d)[2]
                     /\ c = CommitOf(d)
    /\ DOMAIN existing = prior

\* C6: importing an image whose config lacks org.flatpak.ref, .timestamp,
\* .subject or .body raises the missing-key error naming an absent label,
\* with the repository untouched and no transaction open; an image that
\* lacks only org.flatpak.parent-commit is imported, without parent.
C6_MissingLabel ==
    [][pc = "import_image"
        => /\ ~Importable(img)
                => /\ pc' = "exit"
                   /\ returncode' = 1
                   /\ err'.err = "KeyError"
                   /\ err'.key \in RequiredLabels \ DOMAIN LabelsOf(img)
                   /\ repo' = repo
                   /\ ~repo.txn
           /\ Importable(img)
                => /\ pc' = "prepare_transaction"
                   /\ err' = NoError
                   /\ KParent \notin DOMAIN LabelsOf(img) => frame'.parent = None]_vars

C6_Witness ==
    /\ pc = "exit"
    /\ err = [err |-> "KeyError", key |-> KSubject]
    /\ log = <<<<"importing", DA>>, <<"committing", DA>>, <<"committed", DA>>,
               <<"importing", DC>>, <<"raised", DC>>>>
    /\ DOMAIN repo.refs \in {{"app/org.a"}, {"app/org.a", "app/org.x"}}
    /\ ~repo.txn

\* C7: ostree summary runs once, after the last image, in a run where every
\* image was found or imported, and not at all in a run where an import
\* failed.
C7_SummaryOnce ==
    /\ Len(summary) <= 1
    /\ (pc = "exit" /\ Ops({"raised"}) = <<>>) => Len(summary) = 1
    /\ Ops({"raised"}) # <<>> => Len(summary) = 0
    /\ Len(summary) = 1
         => /\ pc = "exit"
            /\ Len(Ops({"found", "committed"}))
                 = Len(SelectSeq(images, LAMBDA l : l # Blank))

C7_Witness ==
    /\ pc = "exit"
    /\ Len(summary) = 1
    /\ Len(Ops({"found"})) = 1
    /\ Len(Ops({"committed"})) = 1

\* C8: the process exits zero only after a run in which every image was
\* found or imported and the summary was republished; every failing stage,
\* the summary step included, gives a non-zero exit.
C8_ExitStatus ==
    pc = "exit"
      => (returncode = 0
            <=> /\ Ops({"raised"}) = <<>>
                /\ Len(Ops({"found", "committed"}))
                     = Len(SelectSeq(images, LAMBDA l : l # Blank))
                /\ summary = <<0>>)

C10_HaltOnFailure ==
    \A k \in 1..Len(log) :
        log[k][1] = "raised"
          => /\ k = Len(log)
             /\ pc = "exit"
             /\ returncode = 1
             /\ \A j \in 1..(k - 1) :
                   log[j][1] = "committed"
                     => /\ CommitOf(log[j][2]) \in repo.objects
                        /\ RefOf(log[j][2]) \in DOMAIN repo.refs
                        /\ \/ repo.refs[RefOf(log[j][2])] = CommitOf(log[j][2])
                           \/ \E m \in (j + 1)..(k - 1) :
                                 /\ log[m][1] = "committed"
                                 /\ RefOf(log[m][2]) = RefOf(log[j][2])

C10_Witness ==
    /\ pc = "exit"
    /\ returncode = 1
    /\ Len(log) >= 2
    /\ log[Len(log)][1] = "raised"
    /\ Ops({"committed"}) # <<>>
    /\ i >= 2

\* The commits the pipeline wrote that the repository or its open
\* transaction holds.
Written == (repo.objects \cup repo.staged_objects) \ {ForeignCommit}

\* The image a written commit was made from.
SourceOf(c) ==
    CHOOSE d \in Digests :
        Importable(d) /\ <<"xa.alt-id", SubSeq(d, 3, Len(d))>> \in Range(c.metadata)

HasSource(c) ==
    \E d \in Digests :
        Importable(d) /\ <<"xa.alt-id", SubSeq(d, 3, Len(d))>> \in Range(c.metadata)

LastDiffId(d) ==
    LET ids == registry[BlobPath(registry[BlobPath(d)].config.digest)].rootfs.diff_ids
    IN  ids[Len(ids)]

\* The entries the labels of image d give, with the two synthesized entries
\* under the names alt and diff.
MetadataEntries(d, alt, diff) ==
    {<<k[2], b64decode(LabelsOf(d)[k])>> :
        k \in {l \in DOMAIN LabelsOf(d) : l[1] = MetadataPrefix}}
    \cup {<<alt, SubSeq(d, 3, Len(d))>>,
          <<diff, SubSeq(LastDiffId(d), 3, Len(LastDiffId(d)))>>}

\* C11 as stated: the metadata of a commit written for image D has exactly
\* one key per org.flatpak.commit-metadata.K label (K, the decoded value),
\* plus alt-id = hash of D and diff-id = hash of the last diff_id.
C11_MetadataFidelity ==
    \A c \in Written :
        /\ HasSource(c)
        /\ Range(c.metadata) = MetadataEntries(SourceOf(c), "alt-id", "diff-id")

\* C11 amended: the same, the two synthesized keys being named xa.alt-id and
\* xa.diff-id; no other entry, none twice.
C11_MetadataKeys ==
    \A c \in Written :
        /\ HasSource(c)
        /\ Range(c.metadata) = MetadataEntries(SourceOf(c), "xa.alt-id", "xa.diff-id")
        /\ Len(c.metadata) = Cardinality(Range(c.metadata))

C11_Witness ==
    /\ \E c \in repo.objects :
          /\ c # ForeignCommit
          /\ Range(c.metadata) =
                {<<"xa.foo", "bar">>, <<"xa.alt-id", <<"a">>>>, <<"xa.diff-id", <<"l2">>>>}
    /\ \E c \in repo.objects :
          /\ c # ForeignCommit
          /\ Range(c.metadata) = {<<"xa.alt-id", <<"b">>>>, <<"xa.diff-id", <<"l1">>>>}

LayerTree(d, k) == registry[BlobPath(registry[BlobPath(d)].layers[k].digest)]

LayerCount(d) == Len(registry[BlobPath(d)].layers)

\* C12: the tree of a written commit has exactly the paths of the layers of
\* its manifest, each with the entry of the last layer in manifest order
\* that contains the path.
C12_LayerOverlay ==
    \A c \in Written :
        LET d == SourceOf(c)
            top(p) == CHOOSE k \in 1..LayerCount(d) :
                         /\ p \in DOMAIN LayerTree(d, k)
                         /\ \A j \in (k + 1)..LayerCount(d) : p \notin DOMAIN LayerTree(d, j)
        IN  /\ DOMAIN c.root = UNION {DOMAIN LayerTree(d, k) : k \in 1..LayerCount(d)}
            /\ \A p \in DOMAIN c.root : c.root[p] = LayerTree(d, top(p))[p]

C12_Witness ==
    /\ \E c \in repo.objects :
          c # ForeignCommit /\ SourceOf(c) = DA
          /\ c.root = ("f" :> "f2") @@ ("g" :> "g1") @@ ("h" :> "h2")
    /\ \E c \in repo.objects :
          c # ForeignCommit /\ SourceOf(c) = DB
          /\ c.root = ("f" :> "f1") @@ ("g" :> "g1") @@ ("h" :> "h2")

\* C13: the commit of an import has the parent its config's
\* org.flatpak.parent-commit label gives, none when the label is absent,
\* whatever the ref pointed at before; committing the import points the
\* image's ref at the new revision, keeps every other ref at its revision
\* and deletes none.
C13_ParentAndRefs ==
    [][(pc = "commit_transaction" /\ pc' = "for")
        => /\ frame.rev.parent =
                 (IF KParent \in DOMAIN LabelsOf(img) THEN LabelsOf(img)[KParent] ELSE None)
           /\ DOMAIN repo'.refs = DOMAIN repo.refs \cup {RefOf(img)}
           /\ repo'.refs[RefOf(img)] = frame.rev
           /\ frame.rev \in repo'.objects
           /\ \A r \in DOMAIN repo.refs \ {RefOf(img)} : repo'.refs[r] = repo.refs[r]]_vars

C13_Witness ==
    /\ Len(log) >= 6
    /\ log[3] = <<"committed", DB>>
    /\ log[6] = <<"committed", DA>>
    /\ DOMAIN repo.refs = {"app/org.a", "app/org.x"}
    /\ repo.refs["app/org.a"].parent = None
    /\ repo.refs["app/org.a"].subject = "a1"
    /\ repo.refs["app/org.x"] = ForeignCommit

\* The refs whose tip carries an xa.alt-id entry, and the key each gives.
TipsWithAltId == {r \in DOMAIN repo.refs : \E e \in Range(repo.refs[r].metadata) : e[1] = "xa.alt-id"}

TipKey(r) ==
    <<"sha256", ":">> \o (CHOOSE e \in Range(repo.refs[r].metadata) : e[1] = "xa.alt-id")[2]

\* C19: when a run starts the index maps, for each ref whose tip carries an
\* alt-id, sha256:<alt-id> to the tip's revision and has no other key (refs
\* with a tip without alt-id and commits that are no tip give none); the
\* index does not change during the run, and an image is skipped exactly
\* when it is a key of that index.
C19_IndexOnce ==
    /\ []((pc = "for" /\ i = 0 /\ log = <<>>)
            => /\ DOMAIN existing = {TipKey(r) : r \in TipsWithAltId}
               /\ \A r \in TipsWithAltId : existing[TipKey(r)] = repo.refs[r])
    /\ [][/\ run' = run => existing' = existing
          /\ i' = i + 1
               => /\ run' = run
                  /\ (pc' = "for" /\ log' = Append(log, <<"found", img'>>))
                       <=> img' \in DOMAIN existing]_vars

C19_Witness ==
    /\ run = 2
    /\ DOMAIN repo.refs = {"app/org.a", "app/org.x"}
    /\ DOMAIN existing = {DB}
    /\ \E c \in repo.objects : c # ForeignCommit /\ SourceOf(c) = DA
    /\ log = <<<<"found", DB>>, <<"importing", DA>>>>

PcEdges ==
    {<<"for", "import_image">>, <<"for", "exit">>,
     <<"import_image", "prepare_transaction">>, <<"import_image", "exit">>,
     <<"prepare_transaction", "layers">>, <<"prepare_transaction", "exit">>,
     <<"layers", "write_commit">>, <<"write_commit", "transaction_set_ref">>,
     <<"transaction_set_ref", "commit_transaction">>, <<"commit_transaction", "for">>,
     <<"layers", "exit">>, <<"write_commit", "exit">>,
     <<"transaction_set_ref", "exit">>, <<"commit_transaction", "exit">>,
     <<"exit", "for">>}

\* C20: a transaction is open exactly between prepare_transaction and the
\* commit_transaction or abort_transaction of the same import_image call, so
\* never between images or at the end of the process; it is closed by a
\* commit (at the end of a successful import) or by an abort (when a step
\* raised), never otherwise; the steps of an import come in the order open,
\* layer merges, tree write, commit write, set-ref, commit transaction.
C20_TransactionBracket ==
    /\ [](/\ repo.txn <=> pc \in {"layers", "write_commit", "transaction_set_ref",
                                  "commit_transaction"}
          /\ ~repo.txn => (repo.staged_refs = EmptyRefs /\ repo.staged_objects = {}))
    /\ [][/\ pc' # pc => <<pc, pc'>> \in PcEdges
          /\ (~repo.txn /\ repo'.txn) => (pc = "prepare_transaction" /\ pc' = "layers")
          /\ (repo.txn /\ ~repo'.txn)
               => \/ /\ pc = "commit_transaction" /\ pc' = "for"
                     /\ repo.staged_refs # EmptyRefs
                     /\ \A r \in DOMAIN repo.staged_refs :
                           r \in DOMAIN repo'.refs /\ repo'.refs[r] = repo.staged_refs[r]
                     /\ repo.staged_objects \subseteq repo'.objects
                  \/ /\ pc' = "exit" /\ returncode' = 1
                     /\ repo'.refs = repo.refs /\ repo'.objects = repo.objects
          /\ (frame # NoFrame /\ frame' # NoFrame /\ frame'.mtree # frame.mtree)
               => pc \in {"prepare_transaction", "layers"}
          /\ repo'.staged_objects # repo.staged_objects
               => (pc = "write_commit" \/ ~repo'.txn)
          /\ repo'.staged_refs # repo.staged_refs
               => (pc = "transaction_set_ref" \/ ~repo'.txn)]_vars

C20_Witness ==
    /\ pc = "for"
    /\ i = 1
    /\ Len(filter_len(images)) = 2
    /\ Len(log) = 3
    /\ log[3][1] = "committed"
    /\ ~repo.txn
    /\ repo.staged_refs = EmptyRefs

BlobFiles == {p \in DOMAIN disk.files : Len(p) = 3 /\ p[1] = "blobs"}

\* C14: two blobs_add_file calls on files with the same bytes return the
\* same digest; after a call the blob directory has exactly one file with
\* those bytes, at blobs/<algorithm>/<hash>, and the file added is no longer
\* at the path it was added from.
C14_IdempotentAdd ==
    \A k \in 1..Len(calls) :
        (calls[k].op = "blobs_add_file" /\ calls[k].err = "")
          => /\ \A j \in 1..(k - 1) :
                   (calls[j].op = "blobs_add_file" /\ calls[j].err = ""
                      /\ calls[j].bytes = calls[k].bytes)
                     => calls[j].digest = calls[k].digest
             /\ {p \in BlobFiles : disk.files[p] = calls[k].bytes}
                  = {<<"blobs", calls[k].digest[1], calls[k].digest[3]>>}
             /\ calls[k].path \notin DOMAIN disk.files

C14_Witness ==
    /\ Len(calls) = 3
    /\ calls[2].op = "blobs_add_file" /\ calls[2].err = "" /\ calls[2].path = <<"..", "s1">>
    /\ calls[3].op = "blobs_add_file" /\ calls[3].err = "" /\ calls[3].path = <<"..", "s2">>
    /\ calls[3].digest = <<"sha256", ":", "hx">>
    /\ disk.files[<<"blobs", "sha256", "hx">>] = "x"

\* C15: Registry(root) on a root that does not exist succeeds, creates the
\* root directory and writes oci-layout with imageLayoutVersion 1.0.0;
\* Registry(root) on a root set up before succeeds and changes nothing.
C15_EnsureInitialized ==
    \A k \in 1..Len(calls) :
        calls[k].op = "Registry"
          => /\ calls[k].err = ""
             /\ Root \in disk.dirs
             /\ ~calls[k].existed
                  => (OciLayout \in DOMAIN disk.files
                        /\ disk.files[OciLayout] = [imageLayoutVersion |-> "1.0.0"])
             /\ (calls[k].existed /\ <<"blobs", "sha256">> \in calls[k].before.dirs
                    /\ k = Len(calls))
                  => disk = calls[k].before

\* C16: blobs_add_json(v, mtype) returns a descriptor whose digest is in the
\* registry and whose blob blobs_get_json reads back as v.
C16_JsonRoundTrip ==
    \A k \in 1..Len(calls) :
        calls[k].op = "blobs_add_json"
          => /\ calls[k].err = ""
             /\ \E p \in BlobFiles : disk.files[p] = calls[k].js

\* C17: path_for_blob of a digest whose algorithm has no blob directory
\* raises instead of returning None; "digest in registry" gives a boolean
\* for every digest; blobs_get_json of a digest that is not there raises
\* the not-found error.
C17_LookupErrors ==
    \A k \in 1..Len(calls) :
        /\ (calls[k].op = "path_for_blob" /\ calls[k].digest[1] \notin RegistryBlobs)
             => (calls[k].err # "" /\ ~calls[k].isnone)
        /\ calls[k].op = "__contains__" => calls[k].err = ""
        /\ (calls[k].op = "blobs_get_json" /\ ~calls[k].present)
             => calls[k].err = "FileNotFoundError"

\* C18: once blobs_add_json has returned or raised, the root of the registry
\* holds no .temp- file.
C18_NoTempLeft ==
    \A k \in 1..Len(TempNames) : <<TempNames[k]>> \notin DOMAIN disk.files

====
